---- MODULE Spec2Model ----
(***************************************************************************)
(* Job tracker + resume tailor (app.py, db.py).                            *)
(*                                                                         *)
(* Text values are sequences of one-character strings.  " " stands for any *)
(* whitespace character, "b" for a backtick, "j" for the five characters   *)
(* json\n that safe_json removes, "x" for any other character, and "P",    *)
(* "Q", "L" for three complete JSON documents.  Dates are <<d>> with d a   *)
(* day number (ISO strings order the same way), SQL NULL / Python None is  *)
(* <<>> and the empty string written by iso_or_empty is <<0>>.             *)
(***************************************************************************)
EXTENDS Integers, Sequences, FiniteSets, TLC

VARIABLES resumes, jobs, versions, ret, resp, session, conn

vars == <<resumes, jobs, versions, ret, resp, session, conn>>

-----------------------------------------------------------------------------
(* Bounds *)

MaxJobs == 1
MaxRepoJobs == 1
MaxDueJobs == 2
MaxResumes == 3
MaxRepoResumes == 1
MaxVersions == 1
MaxRepoDate == 2
MaxBody == 2
MaxParts == 2
MaxSessionResumes == 2
MaxSessionJobs == 2
MaxSessionVersions == 1
MaxCalls == 2

-----------------------------------------------------------------------------
(* Python string helpers *)

WS == " "
TICK == "b"
JSONNL == "j"

RECURSIVE LStrip(_)
LStrip(s) == IF s # <<>> /\ Head(s) = WS THEN LStrip(Tail(s)) ELSE s

RECURSIVE RStrip(_)
RStrip(s) ==
    IF s # <<>> /\ s[Len(s)] = WS THEN RStrip(SubSeq(s, 1, Len(s) - 1)) ELSE s

\* str.strip()
Strip(s) == RStrip(LStrip(s))

RECURSIVE LStripTicks(_)
LStripTicks(s) == IF s # <<>> /\ Head(s) = TICK THEN LStripTicks(Tail(s)) ELSE s

RECURSIVE RStripTicks(_)
RStripTicks(s) ==
    IF s # <<>> /\ s[Len(s)] = TICK
    THEN RStripTicks(SubSeq(s, 1, Len(s) - 1))
    ELSE s

\* str.strip of backticks
StripTicks(s) == RStripTicks(LStripTicks(s))

FenceLen == 3

\* str.startswith of three backticks
StartsWithFence(s) ==
    /\ Len(s) >= FenceLen
    /\ \A i \in 1..FenceLen : s[i] = TICK

RECURSIVE ReplaceFirstJson(_)
\* str.replace("json\n", "", 1)
ReplaceFirstJson(s) ==
    IF s = <<>> THEN <<>>
    ELSE IF Head(s) = JSONNL THEN Tail(s)
    ELSE <<Head(s)>> \o ReplaceFirstJson(Tail(s))

RECURSIVE JoinNewline(_)
\* "\n".join(list of str)
JoinNewline(ps) ==
    IF ps = <<>> THEN <<>>
    ELSE IF Len(ps) = 1 THEN ps[1]
    ELSE ps[1] \o <<WS>> \o JoinNewline(Tail(ps))

-----------------------------------------------------------------------------
(* JSON documents and json.loads *)

NoneText == <<"None">>

DocTokens == {"P", "Q", "L", "T", "E", "N"}

NoValue == [type |-> "none", title |-> <<>>, location |-> <<>>, jd_text |-> <<>>]

\* The value each JSON document denotes: P a full posting, Q an object whose
\* jd_text is blank and whose other keys are missing, L a JSON array; T a
\* tailoring payload, E one whose tailored_resume is "", N one whose
\* tailored_resume is null.  A key a document does not have is not a field
\* of its value (the title, location and jd_text of Q stand for dict.get).
JsonValue(tok) ==
    CASE tok = "P" ->
           [type |-> "object", title |-> <<"t">>, location |-> <<WS, "l">>,
            jd_text |-> <<"d", WS>>]
      [] tok = "Q" ->
           [type |-> "object", title |-> NoneText, location |-> NoneText,
            jd_text |-> <<WS>>]
      [] tok = "T" ->
           [type |-> "object", tailored_resume |-> <<"r", WS>>]
      [] tok = "E" ->
           [type |-> "object", tailored_resume |-> <<>>]
      [] tok = "N" ->
           [type |-> "object", tailored_resume |-> NoneText]
      [] OTHER ->
           [type |-> "array", title |-> <<>>, location |-> <<>>, jd_text |-> <<>>]

Return(v) == [raises |-> "", value |-> v]
Raise(e) == [raises |-> e, value |-> NoValue]

\* json.loads: surrounding whitespace is allowed, then exactly one document.
json_loads(s) ==
    LET t == Strip(s)
    IN IF Len(t) = 1 /\ t[1] \in DocTokens
       THEN Return(JsonValue(t[1]))
       ELSE Raise("JSONDecodeError")

safe_json(text) ==
    IF text = NoneText THEN Raise("ValueError")
    ELSE LET t == Strip(text)
         IN IF StartsWithFence(t)
            THEN json_loads(Strip(ReplaceFirstJson(StripTicks(t))))
            ELSE json_loads(t)

-----------------------------------------------------------------------------
(* extract_job_from_url on a reply of the generation endpoint *)

\* resp.text is a string or None; resp.candidates is a list of candidates,
\* candidates[i] is the list content.parts, a part is its text or None.
PartHasNone(parts) == \E i \in 1..Len(parts) : parts[i] = NoneText

FallbackJoined(parts) == Strip(JoinNewline(parts))

extract_fallback(cands) ==
    IF cands = <<>> THEN Raise("RuntimeError")
    ELSE LET parts == cands[1]
         IN IF PartHasNone(parts) THEN Raise("RuntimeError")
            ELSE IF FallbackJoined(parts) = <<>> THEN Raise("RuntimeError")
            ELSE LET r == safe_json(FallbackJoined(parts))
                 IN IF r.raises = "" THEN r ELSE Raise("RuntimeError")

\* a test of the primary text that forgets to strip it
PrimaryUsable_m(text) == text # NoneText /\ text # <<>>

PrimaryUsable(text) == text # NoneText /\ Strip(text) # <<>>

extract_job_from_url(r) ==
    IF PrimaryUsable(r.text) THEN safe_json(r.text)
    ELSE extract_fallback(r.candidates)

-----------------------------------------------------------------------------
(* Replies of the generation endpoint *)

SeqsUpTo(S, n) == UNION {[1..k -> S] : k \in 0..n}

Ticks(n) == [i \in 1..n |-> TICK]

BodyChars == {JSONNL, "P", "x", WS}

\* Primary texts: a body, bare or behind two or three backticks, with or
\* without a closing fence; or no text at all.
Texts ==
    {Ticks(a) \o b \o Ticks(c) :
        a \in {0, FenceLen - 1, FenceLen}, c \in {0, FenceLen},
        b \in SeqsUpTo(BodyChars, MaxBody)}
    \cup {NoneText}

PartTexts == {NoneText, <<"P">>, <<"x">>, Ticks(FenceLen) \o <<JSONNL, "P">>}

PartLists == SeqsUpTo(PartTexts, MaxParts)

CandLists ==
    {<<>>} \cup {<<c>> : c \in PartLists}
    \cup {<<c, d>> : c \in PartLists, d \in {<<>>, <<<<"P">>>>}}

Responses == [text : Texts, candidates : CandLists]

NoResp == [text |-> NoneText, candidates |-> <<>>]

NoRet == [op |-> "none"]

\* st.session_state of a fresh browser session, with the two selectboxes:
\* None is written 0 for a pick and as the empty generation for
\* last_generation.  from_job and from_resume record whose texts tailor_resume
\* was given when the generation was made.
NoPick == 0
NoGeneration ==
    [version_name |-> <<>>, tailored_resume |-> <<>>, from_job |-> NoPick,
     from_resume |-> NoPick]
NoSession ==
    [last_generation |-> NoGeneration, last_saved_message |-> <<>>,
     prev_job_pick |-> NoPick, prev_resume_pick |-> NoPick,
     job_pick |-> NoPick, resume_pick |-> NoPick]

\* The connections of the clients that share one user identifier: closed, or
\* inside the transaction of one call, with the row version its UPDATE wrote;
\* done lists the calls a client has committed.
Clients == {"c1", "c2"}
NoCall == [op |-> "none"]
NoRow == <<>>
NoConn ==
    [c \in Clients |->
        [pc |-> "closed", call |-> NoCall, row |-> NoRow, done |-> <<>>]]

-----------------------------------------------------------------------------
(* Specification of the generation client alone *)

InitGen ==
    /\ resumes = <<>>
    /\ jobs = <<>>
    /\ versions = <<>>
    /\ ret = NoRet
    /\ resp \in Responses
    /\ session = NoSession
    /\ conn = NoConn

ExtractJobFromUrl ==
    /\ ret' = [op |-> "extract_job_from_url", out |-> extract_job_from_url(resp)]
    /\ UNCHANGED <<resumes, jobs, versions, resp, session, conn>>

NextGen == ExtractJobFromUrl

SpecGen == InitGen /\ [][NextGen]_vars

-----------------------------------------------------------------------------
(* Values stored in the tables *)

NULL == <<>>
EMPTY == <<0>>
Date(d) == <<d>>
StatusDates == {Date(1)}

STATUSES ==
    <<"Target", "Applied", "Recruiter Screen", "Hiring Manager", "Panel",
      "Final Round", "Offer", "Finished", "Paused">>

StatusSet == {STATUSES[i] : i \in 1..Len(STATUSES)}

Pasted == <<"(pasted)">>

Users == {"ua", "ub"}

\* st.sidebar.text_input default, stripped and lower-cased
current_user == "ua"

\* a slip that formats every value as the empty string
iso_or_empty_m(d) == EMPTY

iso_or_empty(d) == IF d = NULL THEN EMPTY ELSE d

\* Python's (x or "")
OrEmpty(t) == IF t = NoneText THEN <<>> ELSE t

-----------------------------------------------------------------------------
(* db.py: writes, as the new value of the table.  A row's id is its index. *)

insert_resume(u, name, resume_text) ==
    Append(resumes,
           [user_email |-> u, name |-> Strip(name), resume_text |-> resume_text])

insert_job(u, company, title, location, url, jd_text, status) ==
    Append(jobs,
           [user_email |-> u, company |-> Strip(company), title |-> Strip(title),
            location |-> Strip(location), url |-> Strip(url), jd_text |-> jd_text,
            status |-> status, status_date |-> NULL, applied_date |-> NULL,
            followup_date |-> NULL, finished_date |-> NULL,
            finished_outcome |-> NoneText, notes |-> NoneText])

update_job_status(u, job_id, status, status_date) ==
    [i \in DOMAIN jobs |->
        IF i = job_id /\ jobs[i].user_email = u
        THEN [jobs[i] EXCEPT !.status = status, !.status_date = status_date]
        ELSE jobs[i]]

update_job_reporting_dates(u, job_id, applied_date, followup_date, finished_date, finished_outcome, notes) ==
    [i \in DOMAIN jobs |->
        IF i = job_id /\ jobs[i].user_email = u
        THEN [jobs[i] EXCEPT !.applied_date = applied_date,
                             !.followup_date = followup_date,
                             !.finished_date = finished_date,
                             !.finished_outcome = Strip(finished_outcome),
                             !.notes = Strip(notes)]
        ELSE jobs[i]]

insert_version(u, job_id, base_resume_id, version_name, tailored_resume) ==
    Append(versions,
           [user_email |-> u, job_id |-> job_id, base_resume_id |-> base_resume_id,
            version_name |-> Strip(version_name),
            tailored_resume |-> tailored_resume])

-----------------------------------------------------------------------------
(* db.py: reads *)

RECURSIVE DescIds(_, _)
\* the ids of the set kept that are at most n, highest id first
DescIds(kept, n) ==
    IF n = 0 THEN <<>>
    ELSE IF n \in kept THEN <<n>> \o DescIds(kept, n - 1)
    ELSE DescIds(kept, n - 1)

list_jobs(u) ==
    DescIds({i \in DOMAIN jobs : jobs[i].user_email = u}, Len(jobs))

JobFound(u, job_id) == job_id \in DOMAIN jobs /\ jobs[job_id].user_email = u

\* get_job raises KeyError unless JobFound
get_job(u, job_id) == jobs[job_id]

-----------------------------------------------------------------------------
(* app.py: Save job (URL or pasted JD) *)

JobNameInputs == {<<>>, <<WS>>, <<"a">>, <<WS, "a", WS>>}
UrlInputs == {<<>>, <<"u", WS>>}
ManualInputs == {<<WS>>, <<WS, "m">>}

\* Replies the Save-job flow is run against: a full posting, a posting with a
\* blank jd_text, a JSON array, junk, nothing at all, and a posting that is
\* only in the fallback candidates.
AppResponses ==
    {[text |-> <<"P">>, candidates |-> <<>>],
     [text |-> Ticks(FenceLen) \o <<JSONNL, "Q", WS>> \o Ticks(FenceLen),
      candidates |-> <<>>],
     [text |-> <<"L">>, candidates |-> <<>>],
     [text |-> <<"x">>, candidates |-> <<<<<<"P">>>>>>],
     [text |-> NoneText, candidates |-> <<>>],
     [text |-> <<WS>>, candidates |-> <<<<<<"P">>>>>>]}

UrlOrPasted(job_url) == IF Strip(job_url) # <<>> THEN Strip(job_url) ELSE Pasted

\* What the try block has in hand when it reaches "if not jd_text": the
\* exception raised so far (if any) and jd_text, title, location.
SaveJobExtract(job_url, r) ==
    IF Strip(job_url) = <<>>
    THEN [raises |-> "", jd_text |-> <<>>, title |-> <<>>, location |-> <<>>]
    ELSE LET out == extract_job_from_url(r)
         IN IF out.raises # ""
            THEN [raises |-> out.raises, jd_text |-> <<>>, title |-> <<>>,
                  location |-> <<>>]
            ELSE IF out.value.type # "object"
            THEN [raises |-> "AttributeError", jd_text |-> <<>>, title |-> <<>>,
                  location |-> <<>>]
            ELSE [raises |-> "",
                  jd_text |-> Strip(OrEmpty(out.value.jd_text)),
                  title |-> Strip(OrEmpty(out.value.title)),
                  location |-> Strip(OrEmpty(out.value.location))]

MsgJobName == "Please enter a job name."
MsgNoJd == "Provide a working URL OR paste the job description text."
MsgJobSaved == "Job saved"
MsgJobSavedPasted == "Job saved using pasted JD"
MsgJobFailed == "Failed to save job."
MsgUncaught == "uncaught exception"

\* DbFails is how many of the handler's insert_job calls, counted from the
\* first, fail to reach the data store; InsertOk(k, f) says whether call k
\* succeeds.
DbFailInputs == {0, 1, 2}
InsertOk(k, dbfails) == k > dbfails

\* a handler that forgets to test the pasted text before inserting
SaveJobHandler_m(job_name, job_url, manual_jd, dbfails, calls) ==
    LET jd == Strip(manual_jd)
    IN IF Strip(job_name) # <<>>
       THEN IF InsertOk(calls + 1, dbfails)
            THEN [msg |-> MsgJobSavedPasted, calls |-> calls + 1,
                  jobs |-> insert_job(current_user, Strip(job_name), <<>>, <<>>,
                                      UrlOrPasted(job_url), jd, "Target")]
            ELSE [msg |-> MsgUncaught, calls |-> calls + 1, jobs |-> jobs]
       ELSE [msg |-> MsgJobFailed, calls |-> calls, jobs |-> jobs]

\* The except handler: a second attempt from the pasted text.  calls is the
\* number of insert_job calls made before it.
SaveJobHandler(job_name, job_url, manual_jd, dbfails, calls) ==
    LET jd == Strip(manual_jd)
    IN IF Strip(job_name) # <<>> /\ jd # <<>>
       THEN IF InsertOk(calls + 1, dbfails)
            THEN [msg |-> MsgJobSavedPasted, calls |-> calls + 1,
                  jobs |-> insert_job(current_user, Strip(job_name), <<>>, <<>>,
                                      UrlOrPasted(job_url), jd, "Target")]
            ELSE [msg |-> MsgUncaught, calls |-> calls + 1, jobs |-> jobs]
       ELSE [msg |-> MsgJobFailed, calls |-> calls, jobs |-> jobs]

\* a Save job without the fallback: any exception of the try block is reported
SaveJobOutcome_m(job_name, job_url, manual_jd, r, dbfails) ==
    IF Strip(job_name) = <<>>
    THEN [msg |-> MsgJobName, calls |-> 0, jobs |-> jobs]
    ELSE LET x == SaveJobExtract(job_url, r)
             jd == IF x.jd_text # <<>> THEN x.jd_text ELSE Strip(manual_jd)
         IN IF x.raises # ""
            THEN [msg |-> MsgJobFailed, calls |-> 0, jobs |-> jobs]
            ELSE IF jd = <<>>
            THEN [msg |-> MsgNoJd, calls |-> 0, jobs |-> jobs]
            ELSE IF InsertOk(1, dbfails)
            THEN [msg |-> MsgJobSaved, calls |-> 1,
                  jobs |-> insert_job(current_user, Strip(job_name), x.title,
                                      x.location, UrlOrPasted(job_url), jd,
                                      "Target")]
            ELSE [msg |-> MsgJobFailed, calls |-> 1, jobs |-> jobs]

\* The whole handler: its message, the number of insert_job calls it made and
\* the jobs table it leaves.
SaveJobOutcome(job_name, job_url, manual_jd, r, dbfails) ==
    IF Strip(job_name) = <<>>
    THEN [msg |-> MsgJobName, calls |-> 0, jobs |-> jobs]
    ELSE LET x == SaveJobExtract(job_url, r)
             jd == IF x.jd_text # <<>> THEN x.jd_text ELSE Strip(manual_jd)
         IN IF x.raises # ""
            THEN SaveJobHandler(job_name, job_url, manual_jd, dbfails, 0)
            ELSE IF jd = <<>>
            THEN [msg |-> MsgNoJd, calls |-> 0, jobs |-> jobs]
            ELSE IF InsertOk(1, dbfails)
            THEN [msg |-> MsgJobSaved, calls |-> 1,
                  jobs |-> insert_job(current_user, Strip(job_name), x.title,
                                      x.location, UrlOrPasted(job_url), jd,
                                      "Target")]
            ELSE SaveJobHandler(job_name, job_url, manual_jd, dbfails, 1)

\* extract_job_from_url is called only with a job name and a URL
CallsExtract(job_name, job_url) == Strip(job_name) # <<>> /\ Strip(job_url) # <<>>

SaveJob ==
    \E job_name \in JobNameInputs, job_url \in UrlInputs,
       manual_jd \in ManualInputs :
      \E r \in IF CallsExtract(job_name, job_url) THEN AppResponses ELSE {NoResp} :
        \E dbfails \in DbFailInputs :
          LET o == SaveJobOutcome(job_name, job_url, manual_jd, r, dbfails)
              x == SaveJobExtract(job_url, r)
          IN /\ dbfails <= o.calls
             /\ Len(o.jobs) <= MaxJobs
             /\ jobs' = o.jobs
             /\ ret' = [op |-> "Save job", job_name |-> job_name,
                        job_url |-> job_url, manual_jd |-> manual_jd,
                        raised |-> IF CallsExtract(job_name, job_url)
                                   THEN x.raises ELSE "",
                        extracted |-> IF CallsExtract(job_name, job_url)
                                      THEN x.jd_text ELSE <<>>,
                        calls |-> o.calls, dbfails |-> dbfails, msg |-> o.msg]
             /\ UNCHANGED <<resumes, versions, resp, session, conn>>

-----------------------------------------------------------------------------
(* app.py: Update status, Save dates/notes *)

MsgNeedDate == "Please select a date for this status."
MsgStatusUpdated == "Status updated"
MsgNoUpdateJobDates == "AttributeError: module 'db' has no attribute 'update_job_dates'"

SeqToSet(q) == {q[i] : i \in 1..Len(q)}

\* st.date_input is shown only when new_status is not Target
StatusDateInputs(new_status) ==
    IF new_status # "Target" THEN StatusDates \cup {NULL} ELSE {NULL}

\* the buggy guard a slip would leave: the date is required for Applied only
StatusDateMissing_m(new_status, status_date_val) ==
    new_status = "Applied" /\ status_date_val = NULL

StatusDateMissing(new_status, status_date_val) ==
    new_status # "Target" /\ status_date_val = NULL

UpdateStatus ==
    \E job_pick \in SeqToSet(list_jobs(current_user)), new_status \in StatusSet :
      \E status_date_val \in StatusDateInputs(new_status) :
        /\ IF StatusDateMissing(new_status, status_date_val)
           THEN /\ jobs' = jobs
                /\ ret' = [op |-> "Update status", job_pick |-> job_pick,
                           new_status |-> new_status,
                           status_date_val |-> status_date_val,
                           msg |-> MsgNeedDate]
           ELSE /\ jobs' = update_job_status(current_user, job_pick, new_status,
                                             iso_or_empty(status_date_val))
                /\ ret' = [op |-> "Update status", job_pick |-> job_pick,
                           new_status |-> new_status,
                           status_date_val |-> status_date_val,
                           msg |-> MsgStatusUpdated]
        /\ UNCHANGED <<resumes, versions, resp, session, conn>>

\* the optional date widgets and the notes area of the selected job
DateInputs == StatusDates \cup {NULL}
NotesInputs == {<<>>, <<"n", WS>>}

\* The button calls db.update_job_dates, which db.py does not define: the
\* attribute lookup raises before any statement reaches the data store.
SaveDatesNotes ==
    \E job_pick \in SeqToSet(list_jobs(current_user)),
       applied_date \in DateInputs, followup_date \in {NULL},
       notes \in NotesInputs :
        /\ ret' = [op |-> "Save dates/notes", job_pick |-> job_pick,
                   applied_date |-> applied_date,
                   followup_date |-> followup_date,
                   finished_date |-> NULL, finished_outcome |-> <<>>,
                   notes |-> notes, msg |-> MsgNoUpdateJobDates]
        /\ UNCHANGED <<resumes, jobs, versions, resp, session, conn>>

-----------------------------------------------------------------------------
(* Specification of the job tracker session *)

Init ==
    /\ resumes = <<>>
    /\ jobs = <<>>
    /\ versions = <<>>
    /\ ret = NoRet
    /\ resp = NoResp
    /\ session = NoSession
    /\ conn = NoConn

Next == SaveJob \/ UpdateStatus \/ SaveDatesNotes

Spec == Init /\ [][Next]_vars

-----------------------------------------------------------------------------
(* Properties of the job tracker session *)

SaveJobErrors == {MsgJobName, MsgNoJd, MsgJobFailed}

NameEmpty(r) == Strip(r.job_name) = <<>>

\* neither the reply nor the pasted text gives a job description
JdEmpty(r) == r.extracted = <<>> /\ Strip(r.manual_jd) = <<>>

RowsNonEmpty ==
    \A i \in DOMAIN jobs : jobs[i].company # <<>> /\ jobs[i].jd_text # <<>>

SaveJobRejects ==
    (ret'.op = "Save job" /\ (NameEmpty(ret') \/ JdEmpty(ret')))
        => (ret'.msg \in SaveJobErrors /\ jobs' = jobs)

\* C1: a Save-job action with an empty job name or an empty resulting job
\* description reports an error and creates no row, whatever the URL
\* extraction did; every stored job has a non-empty company and jd_text.
C1_SaveJobValidates == []RowsNonEmpty /\ [][SaveJobRejects]_vars

\* a job is stored and a later Save job, whose extraction raised and whose
\* pasted text is blank, is refused
C1_Witness ==
    /\ ret.op = "Save job"
    /\ ~NameEmpty(ret)
    /\ ret.raised # ""
    /\ JdEmpty(ret)
    /\ ret.msg = MsgJobFailed
    /\ jobs # <<>>

UpdateRejected ==
    (ret'.op = "Update status" /\ ret'.new_status # "Target"
        /\ ret'.status_date_val = NULL)
        => (ret'.msg = MsgNeedDate /\ jobs' = jobs)

\* C2: a status update to a status other than Target without a date is
\* rejected with an error and leaves every field of every job as it was.
C2_UpdateWithoutDateRejected == [][UpdateRejected]_vars

\* a job that already left Target is asked to move to Applied without a date
C2_Witness ==
    /\ ret.op = "Update status"
    /\ ret.new_status = "Applied"
    /\ ret.status_date_val = NULL
    /\ ret.msg = MsgNeedDate
    /\ jobs[ret.job_pick].status = "Finished"
    /\ jobs[ret.job_pick].status_date = Date(1)

\* C3: every stored job has one of the nine statuses, and a job whose status
\* is not Target has a status_date that is neither NULL nor empty.
C3_StatusDatePresent ==
    \A i \in DOMAIN jobs :
        /\ jobs[i].status \in StatusSet
        /\ jobs[i].status # "Target" => jobs[i].status_date \notin {NULL, EMPTY}

\* a job went to Paused with a date, after the dates/notes button was pressed
C3_Witness ==
    /\ ret.op = "Save dates/notes"
    /\ \E i \in DOMAIN jobs :
          jobs[i].status = "Paused" /\ jobs[i].status_date = Date(1)

FirstWriteWins(old, d) == IF old = NULL THEN d ELSE old

AutoFill ==
    (ret'.op = "Update status" /\ ret'.msg = MsgStatusUpdated
        /\ ret'.status_date_val # NULL)
        => LET i == ret'.job_pick
           IN /\ ret'.new_status = "Applied" =>
                   jobs'[i].applied_date =
                       FirstWriteWins(jobs[i].applied_date, ret'.status_date_val)
              /\ ret'.new_status = "Finished" =>
                   jobs'[i].finished_date =
                       FirstWriteWins(jobs[i].finished_date, ret'.status_date_val)

\* C4: an accepted update to Applied (Finished) with date d sets applied_date
\* (finished_date) to d when it was unset and leaves it alone otherwise.
C4_AutoFillFirstWriteWins == [][AutoFill]_vars

\* the Save job whose URL extraction ended in the "URL could not be read"
\* RuntimeError, with a job name and a data store that answers
ExtractionFailed(r) ==
    /\ r.op = "Save job"
    /\ ~NameEmpty(r)
    /\ Strip(r.job_url) # <<>>
    /\ r.raised = "RuntimeError"
    /\ r.dbfails = 0

FallsBackToPasted ==
    ExtractionFailed(ret') =>
        IF Strip(ret'.manual_jd) # <<>>
        THEN /\ Len(jobs') = Len(jobs) + 1
             /\ \A i \in DOMAIN jobs : jobs'[i] = jobs[i]
             /\ jobs'[Len(jobs')].jd_text = Strip(ret'.manual_jd)
             /\ jobs'[Len(jobs')].company = Strip(ret'.job_name)
             /\ ret'.msg = MsgJobSavedPasted
        ELSE /\ jobs' = jobs
             /\ ret'.msg = MsgJobFailed

C12_InsertNotRetried == ret.op = "Save job" => ret.calls <= 1

\* a field after the replace: the supplied value, or cleared when none is
\* supplied (NULL or the empty string)
ReplacedDate(stored, supplied) ==
    IF supplied = NULL THEN stored = NULL \/ stored = EMPTY
    ELSE stored = iso_or_empty(supplied)

ReplacedText(stored, supplied) ==
    IF supplied = <<>> THEN stored = <<>> \/ stored = NoneText
    ELSE stored = supplied

SaveDatesReplaces ==
    ret'.op = "Save dates/notes" =>
        LET i == ret'.job_pick
        IN /\ ReplacedDate(jobs'[i].applied_date, ret'.applied_date)
           /\ ReplacedDate(jobs'[i].followup_date, ret'.followup_date)
           /\ ReplacedDate(jobs'[i].finished_date, ret'.finished_date)
           /\ ReplacedText(jobs'[i].finished_outcome, ret'.finished_outcome)
           /\ ReplacedText(jobs'[i].notes, Strip(ret'.notes))
           /\ jobs'[i].status = jobs[i].status
           /\ jobs'[i].status_date = jobs[i].status_date

\* C13: the Save dates/notes action replaces applied_date, followup_date,
\* finished_date, finished_outcome and notes of the selected job with the
\* values of its widgets and leaves every other field and job unchanged.
C13_SaveDatesReplacesFields == [][SaveDatesReplaces]_vars

-----------------------------------------------------------------------------
(* app.py: Save base resume *)

ResumeNameInputs == {<<>>, <<WS>>, <<"r">>, <<WS, "r">>}

\* read_docx: the non-blank paragraphs, stripped and joined
ResumeTexts == {<<>>, <<"t">>}

MsgResumeSaved == "Resume saved"

\* the button is drawn only under "if uploaded and resume_name"
SaveResumeShown(uploaded, resume_name) == uploaded /\ resume_name # <<>>

SaveResume ==
    \E uploaded \in BOOLEAN, resume_name \in ResumeNameInputs,
       resume_text \in ResumeTexts :
        /\ SaveResumeShown(uploaded, resume_name)
        /\ Len(resumes) < MaxResumes
        /\ resumes' = insert_resume(current_user, Strip(resume_name), resume_text)
        /\ ret' = [op |-> "Save base resume", resume_name |-> resume_name,
                   msg |-> MsgResumeSaved]
        /\ UNCHANGED <<jobs, versions, resp, session, conn>>

NextResume == SaveResume

SpecResume == Init /\ [][NextResume]_vars

\* C7: saving a resume whose name is empty after trimming fails and stores
\* nothing; no stored resume has an empty name.
C7_ResumeNameRequired ==
    /\ (ret.op = "Save base resume" /\ Strip(ret.resume_name) = <<>>)
          => ret.msg # MsgResumeSaved
    /\ \A i \in DOMAIN resumes : resumes[i].name # <<>>

-----------------------------------------------------------------------------
(* Properties of extract_job_from_url *)

Parseable(t) == t # NoneText /\ safe_json(t).raises = ""

RECURSIVE AllParts(_)
AllParts(cands) ==
    IF cands = <<>> THEN <<>> ELSE Head(cands) \o AllParts(Tail(cands))

\* the text fragments of a list of parts joined, None when a part has no text
JoinedText(parts) == IF PartHasNone(parts) THEN NoneText ELSE JoinNewline(parts)

\* the fragments of every candidate of the list, joined
ListText(cands) == JoinedText(AllParts(cands))

\* the fragments of the first candidate, joined
FirstCandText(cands) == IF cands = <<>> THEN NoneText ELSE JoinedText(cands[1])

Extracted == ret.op = "extract_job_from_url"

\* C9: when neither the primary text nor the fallback text parses, the call
\* fails with the "URL could not be read" RuntimeError and no other error.
C9_OnlyExtractionError ==
    (/\ Extracted
     /\ ~Parseable(resp.text)
     /\ ~Parseable(ListText(resp.candidates))
     /\ ~Parseable(FirstCandText(resp.candidates)))
        => ret.out.raises = "RuntimeError"

PrimaryEmpty(t) == t = NoneText \/ t = <<>>

\* C10 as stated: an empty or missing primary text with a candidate list whose
\* joined fragments parse returns that parse; a non-empty primary text is
\* parsed itself and the fallback is not consulted.
C10_AsStated ==
    Extracted =>
        /\ (/\ PrimaryEmpty(resp.text)
            /\ resp.candidates # <<>>
            /\ Parseable(ListText(resp.candidates)))
              => ret.out = safe_json(ListText(resp.candidates))
        /\ ~PrimaryEmpty(resp.text) => ret.out = safe_json(resp.text)

PrimaryBlank(t) == t = NoneText \/ Strip(t) = <<>>

\* C10 amended: a missing or whitespace-only primary text with a first
\* candidate whose joined fragments parse returns that parse; a primary text
\* that is not blank is parsed itself, whatever the candidates hold.
C10_FallbackWhenPrimaryBlank ==
    Extracted =>
        /\ (/\ PrimaryBlank(resp.text)
            /\ Parseable(FirstCandText(resp.candidates)))
              => ret.out = safe_json(FirstCandText(resp.candidates))
        /\ ~PrimaryBlank(resp.text) => ret.out = safe_json(resp.text)

\* a whitespace-only primary text, a fenced posting in the first candidate
C10_Witness ==
    /\ Extracted
    /\ resp.text = <<WS>>
    /\ Len(resp.candidates) = 2
    /\ Len(resp.candidates[1]) = 1
    /\ StartsWithFence(resp.candidates[1][1])
    /\ ret.out = Return(JsonValue("P"))

-----------------------------------------------------------------------------
(* db.py called directly: each operation by any user, with any argument *)

RepoDates == {Date(d) : d \in 1..MaxRepoDate}

RepoNameArgs == {<<"n", WS>>}
RepoTextArgs == {<<"t">>}
RepoStatusArgs == {"Finished"}
RepoStatusDateArgs == {Date(1)}
FollowupArgs == RepoDates \cup {NULL}

list_resumes(u) ==
    DescIds({i \in DOMAIN resumes : resumes[i].user_email = u}, Len(resumes))

ResumeFound(u, resume_id) ==
    resume_id \in DOMAIN resumes /\ resumes[resume_id].user_email = u

\* the rows the join of versions and resumes keeps for (u, job_id)
VersionListed(u, job_id, v) ==
    /\ v.user_email = u
    /\ v.job_id = job_id
    /\ v.base_resume_id \in DOMAIN resumes

list_versions_for_job(u, job_id) ==
    LET kept == {i \in DOMAIN versions : VersionListed(u, job_id, versions[i])}
        ids == DescIds(kept, Len(versions))
    IN [k \in 1..Len(ids) |->
          [id |-> ids[k],
           version_name |-> versions[ids[k]].version_name,
           tailored_resume |-> versions[ids[k]].tailored_resume,
           resume_name |-> resumes[versions[ids[k]].base_resume_id].name]]

\* to_char(d, 'MM/DD/YYYY')
to_char(d) == IF d = NULL THEN NULL ELSE <<"MM/DD/YYYY", d[1]>>

jobs_report_rows(u) ==
    LET ids == list_jobs(u)
    IN [k \in 1..Len(ids) |->
          [id |-> ids[k],
           company |-> jobs[ids[k]].company,
           status |-> jobs[ids[k]].status,
           applied_date |-> to_char(jobs[ids[k]].applied_date),
           followup_date |-> to_char(jobs[ids[k]].followup_date),
           finished_date |-> to_char(jobs[ids[k]].finished_date),
           finished_outcome |-> jobs[ids[k]].finished_outcome,
           notes |-> jobs[ids[k]].notes]]

DateLe(a, b) == a[1] <= b[1]

\* a WHERE clause that also drops the finished jobs
FollowupDue_m(u, today, row) ==
    /\ row.user_email = u
    /\ row.followup_date # NULL
    /\ DateLe(row.followup_date, today)
    /\ row.status # "Finished"

\* the WHERE clause of followups_due_rows
FollowupDue(u, today, row) ==
    /\ row.user_email = u
    /\ row.followup_date # NULL
    /\ DateLe(row.followup_date, today)

DueIds(u, today) == {i \in DOMAIN jobs : FollowupDue(u, today, jobs[i])}

\* ORDER BY followup_date ASC: any arrangement of the selected rows in which
\* the dates do not decrease (SQL leaves the order of equal dates open)
DueOrders(u, today) ==
    LET S == DueIds(u, today)
        n == Cardinality(S)
    IN {q \in [1..n -> S] :
          /\ \A a, b \in 1..n : a # b => q[a] # q[b]
          /\ \A a \in 1..n - 1 :
                DateLe(jobs[q[a]].followup_date, jobs[q[a + 1]].followup_date)}

DueRow(i) ==
    [id |-> i, company |-> jobs[i].company, title |-> jobs[i].title,
     followup_date |-> jobs[i].followup_date, status |-> jobs[i].status]

RepoInsertResume ==
    \E u \in Users, name \in RepoNameArgs, text \in RepoTextArgs :
        /\ Len(resumes) < MaxRepoResumes
        /\ resumes' = insert_resume(u, name, text)
        /\ ret' = [op |-> "insert_resume", user |-> u, id |-> Len(resumes) + 1]
        /\ UNCHANGED <<jobs, versions, resp, session, conn>>

RepoInsertJob(max) ==
    \E u \in Users, company \in RepoNameArgs, jd_text \in RepoTextArgs :
        /\ Len(jobs) < max
        /\ jobs' = insert_job(u, company, <<>>, <<>>, Pasted, jd_text, "Target")
        /\ ret' = [op |-> "insert_job", user |-> u, id |-> Len(jobs) + 1]
        /\ UNCHANGED <<resumes, versions, resp, session, conn>>

RepoUpdateJobStatus(max) ==
    \E u \in Users, job_id \in 1..max, status \in RepoStatusArgs,
       status_date \in RepoStatusDateArgs :
        /\ jobs' = update_job_status(u, job_id, status, status_date)
        /\ ret' = [op |-> "update_job_status", user |-> u, job_id |-> job_id]
        /\ UNCHANGED <<resumes, versions, resp, session, conn>>

RepoUpdateJobReportingDates(max) ==
    \E u \in Users, job_id \in 1..max, followup_date \in FollowupArgs :
        /\ jobs' = update_job_reporting_dates(u, job_id, NULL, followup_date,
                                              NULL, <<>>, <<>>)
        /\ ret' = [op |-> "update_job_reporting_dates", user |-> u,
                   job_id |-> job_id]
        /\ UNCHANGED <<resumes, versions, resp, session, conn>>

RepoInsertVersion ==
    \E u \in Users, job_id \in 1..MaxRepoJobs + 1,
       base_resume_id \in 1..MaxRepoResumes + 1 :
        /\ Len(versions) < MaxVersions
        /\ versions' = insert_version(u, job_id, base_resume_id, <<"v">>, <<"x">>)
        /\ ret' = [op |-> "insert_version", user |-> u, job_id |-> job_id,
                   base_resume_id |-> base_resume_id, raises |-> "",
                   id |-> Len(versions) + 1]
        /\ UNCHANGED <<resumes, jobs, resp, session, conn>>

RepoListResumes ==
    \E u \in Users :
        /\ ret' = [op |-> "list_resumes", user |-> u, ids |-> list_resumes(u)]
        /\ UNCHANGED <<resumes, jobs, versions, resp, session, conn>>

RepoGetResume ==
    \E u \in Users, resume_id \in 1..MaxRepoResumes + 1 :
        /\ ret' = IF ResumeFound(u, resume_id)
                  THEN [op |-> "get_resume", user |-> u, raises |-> "",
                        ids |-> <<resume_id>>]
                  ELSE [op |-> "get_resume", user |-> u, raises |-> "KeyError",
                        ids |-> <<>>]
        /\ UNCHANGED <<resumes, jobs, versions, resp, session, conn>>

RepoListJobs ==
    \E u \in Users :
        /\ ret' = [op |-> "list_jobs", user |-> u, ids |-> list_jobs(u)]
        /\ UNCHANGED <<resumes, jobs, versions, resp, session, conn>>

RepoGetJob ==
    \E u \in Users, job_id \in 1..MaxRepoJobs + 1 :
        /\ ret' = IF JobFound(u, job_id)
                  THEN [op |-> "get_job", user |-> u, raises |-> "",
                        ids |-> <<job_id>>]
                  ELSE [op |-> "get_job", user |-> u, raises |-> "KeyError",
                        ids |-> <<>>]
        /\ UNCHANGED <<resumes, jobs, versions, resp, session, conn>>

RepoListVersionsForJob ==
    \E u \in Users, job_id \in 1..MaxRepoJobs + 1 :
        /\ ret' = [op |-> "list_versions_for_job", user |-> u,
                   job_id |-> job_id, rows |-> list_versions_for_job(u, job_id)]
        /\ UNCHANGED <<resumes, jobs, versions, resp, session, conn>>

RepoJobsReportRows ==
    \E u \in Users :
        /\ ret' = [op |-> "jobs_report_rows", user |-> u,
                   rows |-> jobs_report_rows(u)]
        /\ UNCHANGED <<resumes, jobs, versions, resp, session, conn>>

RepoFollowupsDueRows ==
    \E u \in Users, today \in RepoDates :
      \E q \in DueOrders(u, today) :
        /\ ret' = [op |-> "followups_due_rows", user |-> u, today |-> today,
                   rows |-> [k \in 1..Len(q) |-> DueRow(q[k])]]
        /\ UNCHANGED <<resumes, jobs, versions, resp, session, conn>>

NextRepo ==
    \/ RepoInsertResume
    \/ RepoInsertJob(MaxRepoJobs)
    \/ RepoUpdateJobStatus(MaxRepoJobs)
    \/ RepoUpdateJobReportingDates(MaxRepoJobs)
    \/ RepoInsertVersion
    \/ RepoListResumes
    \/ RepoGetResume
    \/ RepoListJobs
    \/ RepoGetJob
    \/ RepoListVersionsForJob
    \/ RepoJobsReportRows
    \/ RepoFollowupsDueRows

SpecRepo == Init /\ [][NextRepo]_vars

\* The jobs table and the follow-up report alone
NextDue ==
    \/ RepoInsertJob(MaxDueJobs)
    \/ RepoUpdateJobStatus(MaxDueJobs)
    \/ RepoUpdateJobReportingDates(MaxDueJobs)
    \/ RepoFollowupsDueRows

SpecDue == Init /\ [][NextDue]_vars

-----------------------------------------------------------------------------
(* Properties of the repository *)

OwnedIds(table, ids, u) == \A k \in 1..Len(ids) : table[ids[k]].user_email = u

RowIds(rows) == [k \in 1..Len(rows) |-> rows[k].id]

\* every row, and every joined row, behind the last read belongs to the reader
ReadIsolated ==
    /\ ret.op \in {"list_resumes", "get_resume"} => OwnedIds(resumes, ret.ids, ret.user)
    /\ ret.op \in {"list_jobs", "get_job"} => OwnedIds(jobs, ret.ids, ret.user)
    /\ ret.op \in {"jobs_report_rows", "followups_due_rows"} =>
          OwnedIds(jobs, RowIds(ret.rows), ret.user)
    /\ ret.op = "list_versions_for_job" =>
          \A k \in 1..Len(ret.rows) :
              LET v == versions[ret.rows[k].id]
              IN /\ v.user_email = ret.user
                 /\ resumes[v.base_resume_id].user_email = ret.user

Writes ==
    {"insert_resume", "insert_job", "update_job_status",
     "update_job_reporting_dates", "insert_version"}

\* a write leaves the rows of every other user as they were
WritesOwnRowsOnly ==
    ret'.op \in Writes =>
        /\ \A i \in DOMAIN jobs :
              jobs[i].user_email # ret'.user => jobs'[i] = jobs[i]
        /\ \A i \in DOMAIN resumes :
              resumes[i].user_email # ret'.user => resumes'[i] = resumes[i]
        /\ \A i \in DOMAIN versions :
              versions[i].user_email # ret'.user => versions'[i] = versions[i]

\* C5: no read by one user returns a field of a row of another user (the
\* resume name joined to a version included), and no write by one user
\* changes a row of another.
C5_NoCrossUserAccess == [][ReadIsolated' /\ WritesOwnRowsOnly]_vars

VersionUnresolved ==
    /\ ret'.op = "insert_version"
    /\ ~(JobFound(ret'.user, ret'.job_id)
         /\ ResumeFound(ret'.user, ret'.base_resume_id))

\* C6: insert_version with a job id or a base resume id that is not a row of
\* the caller fails with a validation error and stores no version.
C6_CreateVersionValidates ==
    [][VersionUnresolved => (ret'.raises = "ValidationError" /\ versions' = versions)]_vars

\* C8: followups_due_rows(today) returns the caller's jobs whose followup_date
\* is set and not after today, whatever their status, each once, with the
\* dates in ascending order.
C8_FollowupsDueExact ==
    ret.op = "followups_due_rows" =>
        LET rows == ret.rows
            due(i) == /\ jobs[i].user_email = ret.user
                      /\ jobs[i].followup_date # NULL
                      /\ jobs[i].followup_date[1] <= ret.today[1]
        IN /\ \A k \in 1..Len(rows) :
                /\ rows[k].id \in DOMAIN jobs
                /\ due(rows[k].id)
                /\ rows[k].followup_date = jobs[rows[k].id].followup_date
                /\ rows[k].status = jobs[rows[k].id].status
                /\ rows[k].company = jobs[rows[k].id].company
           /\ \A i \in DOMAIN jobs :
                due(i) => Cardinality({k \in 1..Len(rows) : rows[k].id = i}) = 1
           /\ \A k \in 1..Len(rows) - 1 :
                rows[k].followup_date[1] <= rows[k + 1].followup_date[1]

\* two jobs are due, the later-created one first, and one of them is finished
C8_Witness ==
    /\ ret.op = "followups_due_rows"
    /\ Len(ret.rows) = 2
    /\ ret.rows[1].id > ret.rows[2].id
    /\ ret.rows[1].followup_date # ret.rows[2].followup_date
    /\ \E k \in 1..2 : ret.rows[k].status = "Finished"

-----------------------------------------------------------------------------
(* app.py: one browser session: selections, Generate, Save Version to Job *)

\* dict.get(key, default)
Get(d, key, default) == IF key \in DOMAIN d THEN d[key] ELSE default

\* tailor_resume on the reply text of the generation endpoint
tailor_resume(text) == safe_json(OrEmpty(text))

\* Replies to the tailoring request: a payload, bare and fenced; payloads
\* whose tailored_resume is "", null or missing; an array; junk; no text.
TailorTexts ==
    {<<"T">>, Ticks(FenceLen) \o <<JSONNL, "T", WS>> \o Ticks(FenceLen),
     <<"E">>, <<"N">>, <<"P">>, <<"L">>, <<"x">>, NoneText}

VersionNameInputs == {<<WS>>, <<WS, "v">>}
DefaultVersionName == <<"version">>

MsgNoTailored == "Model did not include 'tailored_resume'. Raw response below:"
MsgSaved(version_name) == <<"Saved: ">> \o version_name

\* a reset that watches the job selection only
SyncSelection_m(s) ==
    IF s.job_pick = NoPick THEN s
    ELSE IF s.prev_job_pick # s.job_pick
    THEN [s EXCEPT !.last_generation = NoGeneration,
                   !.last_saved_message = <<>>,
                   !.prev_job_pick = s.job_pick,
                   !.prev_resume_pick = s.resume_pick]
    ELSE s

\* The reset every script run performs under "if jobs:", before the buttons
\* of the right column are reached.
SyncSelection(s) ==
    IF s.job_pick = NoPick THEN s
    ELSE IF s.prev_job_pick # s.job_pick \/ s.prev_resume_pick # s.resume_pick
    THEN [s EXCEPT !.last_generation = NoGeneration,
                   !.last_saved_message = <<>>,
                   !.prev_job_pick = s.job_pick,
                   !.prev_resume_pick = s.resume_pick]
    ELSE s

\* The value a selectbox returns in a run: the user's pick while the options
\* are the ones it was drawn with, some option when the options changed,
\* None when there are none.
PicksAfter(pick, old_options, new_options) ==
    IF new_options = <<>> THEN {NoPick}
    ELSE IF new_options = old_options THEN {pick}
    ELSE SeqToSet(new_options)

\* the right column is reached only with both selections
RightColumnShown(s) == s.resume_pick # NoPick /\ s.job_pick # NoPick

\* a Generate that keeps the previous generation when tailored_resume is missing
AfterGenerate_m(s, out, version_name) ==
    LET s1 == [s EXCEPT !.last_saved_message = <<>>]
    IN IF out.raises # ""
       THEN [session |-> s1, raises |-> out.raises, msg |-> "", shown |-> NoValue]
       ELSE IF out.value.type # "object"
       THEN [session |-> s1, raises |-> "AttributeError", msg |-> "",
             shown |-> NoValue]
       ELSE LET tailored == OrEmpty(Get(out.value, "tailored_resume", <<>>))
            IN IF tailored = <<>>
               THEN [session |-> s1, raises |-> "", msg |-> MsgNoTailored,
                     shown |-> out.value]
               ELSE [session |->
                       [s1 EXCEPT !.last_generation =
                          [version_name |->
                             IF Strip(version_name) # <<>>
                             THEN Strip(version_name) ELSE DefaultVersionName,
                           tailored_resume |-> tailored,
                           from_job |-> s.job_pick,
                           from_resume |-> s.resume_pick]],
                     raises |-> "", msg |-> "", shown |-> NoValue]

\* The Generate handler on the result out of tailor_resume: the session it
\* leaves, the exception that ends the run, the error it shows and the
\* payload it prints with st.json.
AfterGenerate(s, out, version_name) ==
    LET s1 == [s EXCEPT !.last_saved_message = <<>>]
    IN IF out.raises # ""
       THEN [session |-> s1, raises |-> out.raises, msg |-> "", shown |-> NoValue]
       ELSE IF out.value.type # "object"
       THEN [session |-> s1, raises |-> "AttributeError", msg |-> "",
             shown |-> NoValue]
       ELSE LET tailored == OrEmpty(Get(out.value, "tailored_resume", <<>>))
            IN IF tailored = <<>>
               THEN [session |-> [s1 EXCEPT !.last_generation = NoGeneration],
                     raises |-> "", msg |-> MsgNoTailored, shown |-> out.value]
               ELSE [session |->
                       [s1 EXCEPT !.last_generation =
                          [version_name |->
                             IF Strip(version_name) # <<>>
                             THEN Strip(version_name) ELSE DefaultVersionName,
                           tailored_resume |-> tailored,
                           from_job |-> s.job_pick,
                           from_resume |-> s.resume_pick]],
                     raises |-> "", msg |-> "", shown |-> NoValue]

\* Save base resume, then the rest of the run
SessionSaveResume ==
    \E resume_name \in {<<"r">>}, resume_text \in {<<"t">>} :
      \E pick \in PicksAfter(session.resume_pick, list_resumes(current_user),
                     <<Len(resumes) + 1>> \o list_resumes(current_user)) :
        /\ SaveResumeShown(TRUE, resume_name)
        /\ Len(resumes) < MaxSessionResumes
        /\ resumes' = insert_resume(current_user, Strip(resume_name), resume_text)
        /\ session' = SyncSelection([session EXCEPT !.resume_pick = pick])
        /\ ret' = [op |-> "Save base resume", msg |-> MsgResumeSaved]
        /\ UNCHANGED <<jobs, versions, resp, conn>>

\* Save job from pasted text, then the rest of the run
SessionSaveJob ==
    \E job_name \in {<<"a">>}, manual_jd \in {<<WS, "m">>} :
      LET o == SaveJobOutcome(job_name, <<>>, manual_jd, NoResp, 0)
      IN \E pick \in PicksAfter(session.job_pick, list_jobs(current_user),
                        <<Len(jobs) + 1>> \o list_jobs(current_user)) :
          /\ Len(o.jobs) <= MaxSessionJobs
          /\ jobs' = o.jobs
          /\ session' = SyncSelection([session EXCEPT !.job_pick = pick])
          /\ ret' = [op |-> "Save job", msg |-> o.msg]
          /\ UNCHANGED <<resumes, versions, resp, conn>>

SelectResume ==
    \E pick \in SeqToSet(list_resumes(current_user)) \ {session.resume_pick} :
        /\ session' = SyncSelection([session EXCEPT !.resume_pick = pick])
        /\ ret' = [op |-> "Select base resume", msg |-> ""]
        /\ UNCHANGED <<resumes, jobs, versions, resp, conn>>

SelectJob ==
    \E pick \in SeqToSet(list_jobs(current_user)) \ {session.job_pick} :
        /\ session' = SyncSelection([session EXCEPT !.job_pick = pick])
        /\ ret' = [op |-> "Choose job", msg |-> ""]
        /\ UNCHANGED <<resumes, jobs, versions, resp, conn>>

Generate ==
    \E text \in TailorTexts, version_name \in VersionNameInputs :
      LET s == SyncSelection(session)
          o == AfterGenerate(s, tailor_resume(text), version_name)
      IN /\ RightColumnShown(s)
         /\ ResumeFound(current_user, s.resume_pick)
         /\ JobFound(current_user, s.job_pick)
         /\ session' = o.session
         /\ ret' = [op |-> "Generate", text |-> text, raises |-> o.raises,
                    msg |-> o.msg, shown |-> o.shown]
         /\ UNCHANGED <<resumes, jobs, versions, resp, conn>>

\* the button is drawn only under "if gen:"
SaveVersion ==
    LET s == SyncSelection(session)
        gen == s.last_generation
    IN /\ RightColumnShown(s)
       /\ gen # NoGeneration
       /\ Len(versions) < MaxSessionVersions
       /\ versions' = insert_version(current_user, s.job_pick, s.resume_pick,
                                     gen.version_name, gen.tailored_resume)
       /\ session' = [s EXCEPT !.last_saved_message = MsgSaved(gen.version_name)]
       /\ ret' = [op |-> "Save Version to Job",
                  msg |-> "Saved"]
       /\ UNCHANGED <<resumes, jobs, resp, conn>>

NextSession ==
    \/ SessionSaveResume
    \/ SessionSaveJob
    \/ SelectResume
    \/ SelectJob
    \/ Generate
    \/ SaveVersion

SpecSession == Init /\ [][NextSession]_vars

-----------------------------------------------------------------------------
(* Properties of the browser session *)

\* the reply parses to an object whose tailored_resume is missing, null or ""
TailoredMissing(text) ==
    LET out == tailor_resume(text)
    IN /\ out.raises = ""
       /\ out.value.type = "object"
       /\ OrEmpty(Get(out.value, "tailored_resume", <<>>)) = <<>>

GenerateMissing ==
    (ret'.op = "Generate" /\ TailoredMissing(ret'.text))
        => /\ ret'.raises = ""
           /\ ret'.msg = MsgNoTailored
           /\ ret'.shown = tailor_resume(ret'.text).value
           /\ session'.last_generation = NoGeneration
           /\ versions' = versions

\* C14: a Generate whose reply parses to a payload without a non-empty
\* tailored_resume raises nothing, shows the raw payload and leaves
\* last_generation empty, so Save Version to Job is not offered.
C14_GenerateWithoutTailored == [][GenerateMissing]_vars

\* a version was saved earlier, and a later Generate whose payload lacks the
\* key emptied the result
C14_Witness ==
    /\ ret.op = "Generate"
    /\ ret.text = <<"P">>
    /\ ret.msg = MsgNoTailored
    /\ ret.shown = JsonValue("P")
    /\ session.last_generation = NoGeneration
    /\ session.prev_job_pick = session.job_pick
    /\ versions # <<>>

GenBelongsToSelection ==
    session.last_generation # NoGeneration
        => /\ session.last_generation.from_job = session.job_pick
           /\ session.last_generation.from_resume = session.resume_pick

SelectionClears ==
    ret'.op \in {"Select base resume", "Choose job"}
        => session'.last_generation = NoGeneration

SaveKeepsAndReferences ==
    ret'.op = "Save Version to Job"
        => LET v == versions'[Len(versions')]
               gen == session.last_generation
           IN /\ Len(versions') = Len(versions) + 1
              /\ session'.last_generation = gen
              /\ gen # NoGeneration
              /\ v.tailored_resume = gen.tailored_resume
              /\ v.job_id = gen.from_job
              /\ v.base_resume_id = gen.from_resume

\* C16: a non-empty last_generation was made from the selected job and the
\* selected base resume; a change of either selection empties it, Save
\* Version to Job keeps it, and the row Save Version to Job writes references
\* the job and the resume the saved text was generated from.
C16_GenerationBelongsToSelection ==
    []GenBelongsToSelection /\ [][SelectionClears /\ SaveKeepsAndReferences]_vars

\* with two jobs and two resumes stored, a version generated for the older
\* job and the older resume was saved and is still on screen
C16_Witness ==
    /\ ret.op = "Save Version to Job"
    /\ Len(jobs) = 2
    /\ Len(resumes) = 2
    /\ versions[1].job_id = 1
    /\ versions[1].base_resume_id = 1
    /\ versions[1].version_name = DefaultVersionName
    /\ session.last_generation.tailored_resume = <<"r", WS>>
    /\ session.last_saved_message = MsgSaved(DefaultVersionName)

-----------------------------------------------------------------------------
(* db.py: update_job_status and update_job_reporting_dates issued by two
   sessions of one user.  Each call opens its own connection, runs one UPDATE
   statement and commits; PostgreSQL keeps the written row version private to
   the transaction, and locked against other writers, until the commit. *)

\* the ids of the jobs the two sessions have selected: the same, first, job
SharedJobs == {1}

StatusCalls ==
    {[op |-> "update_job_status", job_id |-> j, status |-> st.status,
      status_date |-> st.status_date] :
        j \in SharedJobs,
        st \in {[status |-> "Applied", status_date |-> Date(1)],
                [status |-> "Finished", status_date |-> Date(2)]}}

DatesCalls ==
    {[op |-> "update_job_reporting_dates", job_id |-> j,
      applied_date |-> d.applied_date, followup_date |-> d.followup_date,
      finished_date |-> NULL, finished_outcome |-> <<>>, notes |-> d.notes] :
        j \in SharedJobs,
        d \in {[applied_date |-> Date(1), followup_date |-> NULL,
                notes |-> <<"n", WS>>],
               [applied_date |-> NULL, followup_date |-> Date(2),
                notes |-> <<>>]}}

Calls == StatusCalls \cup DatesCalls

\* the jobs table the UPDATE statement of a call computes
Updated(call) ==
    IF call.op = "update_job_status"
    THEN update_job_status(current_user, call.job_id, call.status,
                           call.status_date)
    ELSE update_job_reporting_dates(current_user, call.job_id,
                                    call.applied_date, call.followup_date,
                                    call.finished_date, call.finished_outcome,
                                    call.notes)

\* a store whose UPDATE does not wait for the writer that holds the row
RowLocked_m(c, job_id) == FALSE

\* another client's uncommitted UPDATE holds the row
RowLocked(c, job_id) ==
    \E d \in Clients \ {c} :
        conn[d].pc = "executed" /\ conn[d].call.job_id = job_id

ConcInsertJob ==
    /\ Len(jobs) < Cardinality(SharedJobs)
    /\ jobs' = insert_job(current_user, <<"a">>, <<>>, <<>>, Pasted, <<"m">>,
                          "Target")
    /\ ret' = [op |-> "insert_job", id |-> Len(jobs) + 1]
    /\ UNCHANGED <<resumes, versions, resp, session, conn>>

\* _pg_conn() and cur.execute(UPDATE ...): the statement waits while the row
\* is locked, then writes its row version from the committed row
ConcExecute(c) ==
    \E call \in Calls :
        /\ conn[c].pc = "closed"
        /\ Len(conn[c].done) < MaxCalls
        /\ JobFound(current_user, call.job_id)
        /\ ~RowLocked(c, call.job_id)
        /\ conn' = [conn EXCEPT ![c].pc = "executed", ![c].call = call,
                                ![c].row = Updated(call)[call.job_id]]
        /\ ret' = [op |-> "execute", client |-> c]
        /\ UNCHANGED <<resumes, jobs, versions, resp, session>>

\* conn.commit(): the row version becomes the stored row
ConcCommit(c) ==
    /\ conn[c].pc = "executed"
    /\ jobs' = [jobs EXCEPT ![conn[c].call.job_id] = conn[c].row]
    /\ conn' = [conn EXCEPT ![c].pc = "closed", ![c].call = NoCall,
                            ![c].row = NoRow,
                            ![c].done = Append(@, conn[c].call)]
    /\ ret' = [op |-> "commit", client |-> c]
    /\ UNCHANGED <<resumes, versions, resp, session>>

\* the connection is lost before the commit: the transaction is rolled back
\* and the call raises
ConcConnectionLost(c) ==
    /\ conn[c].pc = "executed"
    /\ conn' = [conn EXCEPT ![c].pc = "closed", ![c].call = NoCall,
                            ![c].row = NoRow]
    /\ ret' = [op |-> "rollback", client |-> c]
    /\ UNCHANGED <<resumes, jobs, versions, resp, session>>

\* get_job from a client that is not inside a call: one SELECT of the
\* committed row
ConcGetJob(c) ==
    \E job_id \in SharedJobs :
        /\ conn[c].pc = "closed"
        /\ JobFound(current_user, job_id)
        /\ ret' = [op |-> "get_job", client |-> c, job_id |-> job_id,
                   row |-> get_job(current_user, job_id)]
        /\ UNCHANGED <<resumes, jobs, versions, resp, session, conn>>

NextConc ==
    \/ ConcInsertJob
    \/ \E c \in Clients : ConcExecute(c)
    \/ \E c \in Clients : ConcCommit(c)
    \/ \E c \in Clients : ConcConnectionLost(c)
    \/ \E c \in Clients : ConcGetJob(c)

SpecConc == Init /\ [][NextConc]_vars

-----------------------------------------------------------------------------
(* Properties of concurrent updates *)

\* what a call is specified to do to a job row
ApplyCall(row, call) ==
    IF call.op = "update_job_status"
    THEN [row EXCEPT !.status = call.status, !.status_date = call.status_date]
    ELSE [row EXCEPT !.applied_date = call.applied_date,
                     !.followup_date = call.followup_date,
                     !.finished_date = call.finished_date,
                     !.finished_outcome = Strip(call.finished_outcome),
                     !.notes = Strip(call.notes)]

RECURSIVE Replay(_, _)
Replay(row, calls) ==
    IF calls = <<>> THEN row
    ELSE Replay(ApplyCall(row, Head(calls)), Tail(calls))

RECURSIVE Interleavings(_, _)
\* the merges of two sequences that keep the order of each
Interleavings(a, b) ==
    IF a = <<>> THEN {b}
    ELSE IF b = <<>> THEN {a}
    ELSE {<<Head(a)>> \o q : q \in Interleavings(Tail(a), b)}
         \cup {<<Head(b)>> \o q : q \in Interleavings(a, Tail(b))}

RECURSIVE OnJob(_, _)
OnJob(calls, job_id) ==
    IF calls = <<>> THEN <<>>
    ELSE IF Head(calls).job_id = job_id
    THEN <<Head(calls)>> \o OnJob(Tail(calls), job_id)
    ELSE OnJob(Tail(calls), job_id)

\* the row as insert_job wrote it
InsertedRow(job_id) ==
    [jobs[job_id] EXCEPT !.status = "Target", !.status_date = NULL,
                         !.applied_date = NULL, !.followup_date = NULL,
                         !.finished_date = NULL, !.finished_outcome = NoneText,
                         !.notes = NoneText]

\* the rows some serial order of the committed calls leaves
SerialRows(job_id) ==
    {Replay(InsertedRow(job_id), q) :
        q \in Interleavings(OnJob(conn["c1"].done, job_id),
                            OnJob(conn["c2"].done, job_id))}

StoredIsSerial == \A job_id \in DOMAIN jobs : jobs[job_id] \in SerialRows(job_id)

ReadIsSerial ==
    \A job_id \in SharedJobs :
        (ret'.op = "get_job" /\ ret'.job_id = job_id)
            => ret'.row \in SerialRows(job_id)'

=============================================================================
